---------------------------- MODULE Spec2Model ----------------------------
(***************************************************************************)
(* Model of build-support/pg_regress_postprocess_output.py: the in-place   *)
(* filter of a regression-test output file.  Text is a sequence of         *)
(* one-character strings; a document is a sequence of lines.               *)
(***************************************************************************)
EXTENDS Integers, Sequences, FiniteSets, TLC

VARIABLES
    path,                   \* sys.argv[1]
    exists,                 \* whether the file exists on disk
    file,                   \* the content of the file on disk
    orig_exists,            \* the file's existence when the run started
    orig_file,              \* the file's content when the run started
    pc,                     \* the position of main()
    lines,                  \* main's `lines`
    result_lines,           \* main's `result_lines`
    i,                      \* main's scan index
    skipping,               \* main's `skipping`
    just_stopped_skipping,  \* main's `just_stopped_skipping`
    new_len,                \* main's `new_len`
    other                   \* a second invocation of main on the same path

vars == <<path, exists, file, orig_exists, orig_file, pc, lines, result_lines,
          i, skipping, just_stopped_skipping, new_len, other>>

(***************************************************************************)
(* Bounds of the checked inputs.                                           *)
(***************************************************************************)
MaxLines == 4
MaxMarkerLines == 6
MaxRichLines == 2
MaxFrags == 3
MaxConcLines == 2

(***************************************************************************)
(* Literals of the program.                                                *)
(***************************************************************************)
SEPARATOR_WIDTH == 53

SANITIZER_SEPARATOR_LINE == [k \in 1..SEPARATOR_WIDTH |-> "-"]

SUPPRESSIONS_HEADER ==
    <<"S", "u", "p", "p", "r", "e", "s", "s", "i", "o", "n", "s", " ", "u", "s", "e", "d",
    ":">>

YB_DATA_END ==
    <<"-", "-", " ", "Y", "B", "_", "D", "A", "T", "A", "_", "E", "N", "D">>

UUID_MASK ==
    <<"*", "*", "*", "*", "*", "*", "*", "*", "-", "*", "*", "*", "*", "-", "4", "*", "*",
    "*", "-", "*", "*", "*", "*", "-", "*", "*", "*", "*", "*", "*", "*", "*", "*", "*",
    "*", "*">>

PLACEHOLDER_LINE ==
    <<"-", "-", " ", "A", "u", "t", "o", "m", "a", "t", "i", "c", "a", "l", "l", "y", " ",
    "c", "r", "e", "a", "t", "e", "d", " ", "b", "y", " ", "p", "g", "_", "r", "e", "g",
    "r", "e", "s", "s", "_", "p", "o", "s", "t", "p", "r", "o", "c", "e", "s", "s", "_",
    "o", "u", "t", "p", "u", "t", ".", "p", "y", " ", "(", "n", "e", "w", " ", "t", "e",
    "s", "t", "?", ")", "\n">>

EXPECTED_DIR_SUFFIX ==
    <<"/", "r", "e", "g", "r", "e", "s", "s", "/", "e", "x", "p", "e", "c", "t", "e", "d">>

(***************************************************************************)
(* Python's string operations, on sequences of characters.                 *)
(***************************************************************************)
\* The characters str.strip() and str.rstrip() remove.
Whitespace == {" ", "\t", "\n", "\r", "\f"}

\* s[a:b] with 0-based, clamped bounds.
Slice(s, a, b) ==
    LET lo == IF a < 0 THEN 0 ELSE a
        hi == IF b > Len(s) THEN Len(s) ELSE b
    IN  IF lo >= hi THEN <<>> ELSE SubSeq(s, lo + 1, hi)

\* s.rstrip()
RECURSIVE rstrip(_)
rstrip(s) ==
    IF s # <<>> /\ s[Len(s)] \in Whitespace
    THEN rstrip(SubSeq(s, 1, Len(s) - 1))
    ELSE s

\* s.lstrip()
RECURSIVE lstrip(_)
lstrip(s) ==
    IF s # <<>> /\ s[1] \in Whitespace THEN lstrip(Tail(s)) ELSE s

\* s.strip()
strip(s) == lstrip(rstrip(s))

\* s.endswith(suffix)
endswith(s, suffix) ==
    /\ Len(suffix) <= Len(s)
    /\ SubSeq(s, Len(s) - Len(suffix) + 1, Len(s)) = suffix

\* s.rstrip('/')
RECURSIVE rstrip_slashes(_)
rstrip_slashes(s) ==
    IF s # <<>> /\ s[Len(s)] = "/"
    THEN rstrip_slashes(SubSeq(s, 1, Len(s) - 1))
    ELSE s

\* os.path.dirname(p) of posixpath.
dirname(p) ==
    LET slashes == {k \in 1..Len(p) : p[k] = "/"}
        cut == IF slashes = {} THEN 0
               ELSE CHOOSE k \in slashes : \A m \in slashes : m <= k
        head == SubSeq(p, 1, cut)
    IN  IF head # <<>> /\ \E k \in 1..Len(head) : head[k] # "/"
        THEN rstrip_slashes(head)
        ELSE head

\* IsExpectedDir with the suffix 'regress/expected', without its leading slash.
IsExpectedDir_NoSlash(p) == endswith(dirname(p), Tail(EXPECTED_DIR_SUFFIX))

\* The test of line 27.
IsExpectedDir(p) == endswith(dirname(p), EXPECTED_DIR_SUFFIX)

\* The positions at which a line of text ends: each newline, and the last
\* character.
LineEnds(text) == {k \in 1..Len(text) : text[k] = "\n" \/ k = Len(text)}

\* The position at which line j of text ends; 0 for j = 0.
LineEnd(text, j) ==
    IF j = 0 THEN 0
    ELSE CHOOSE k \in LineEnds(text) : Cardinality({m \in LineEnds(text) : m <= k}) = j

\* file.readlines(): each line keeps its terminating newline.
readlines(text) ==
    [j \in 1..Cardinality(LineEnds(text)) |->
        SubSeq(text, LineEnd(text, j - 1) + 1, LineEnd(text, j))]

\* sep.join(ls)
RECURSIVE join(_, _)
join(sep, ls) ==
    IF ls = <<>> THEN <<>>
    ELSE IF Len(ls) = 1 THEN ls[1]
    ELSE ls[1] \o sep \o join(sep, Tail(ls))

\* The text written on line 100.
Serialize(ls) == join(<<"\n">>, ls) \o <<"\n">>

(***************************************************************************)
(* mask_uuid4s, lines 41-56.                                               *)
(***************************************************************************)
HexDigit ==
    {"0", "1", "2", "3", "4", "5", "6", "7", "8", "9",
     "a", "b", "c", "d", "e", "f", "A", "B", "C", "D", "E", "F"}

VariantDigit == {"8", "9", "A", "B", "a", "b"}

\* The regular expression of line 45 as the set each of its 36 positions accepts.
UuidPattern ==
    LET h(n) == [k \in 1..n |-> HexDigit]
    IN  h(8) \o <<{"-"}>> \o h(4) \o <<{"-"}>> \o <<{"4"}>> \o h(3) \o <<{"-"}>>
        \o <<VariantDigit>> \o h(3) \o <<{"-"}>> \o h(12)

\* Whether the pattern matches at the 0-based position p of s.
MatchAt(s, p) ==
    /\ p >= 0
    /\ p + Len(UuidPattern) <= Len(s)
    /\ \A k \in 1..Len(UuidPattern) : s[p + k] \in UuidPattern[k]

\* finditer_starts as re.search would give it: the first match only.
RECURSIVE finditer_starts_FirstOnly(_, _)
finditer_starts_FirstOnly(s, p) ==
    IF p + Len(UuidPattern) > Len(s) THEN <<>>
    ELSE IF MatchAt(s, p) THEN <<p>> ELSE finditer_starts_FirstOnly(s, p + 1)

\* re.finditer: the starts of the matches, scanning from 0-based position p;
\* after a match the scan resumes at the match's end.
RECURSIVE finditer_starts(_, _)
finditer_starts(s, p) ==
    IF p + Len(UuidPattern) > Len(s) THEN <<>>
    ELSE IF MatchAt(s, p)
         THEN <<p>> \o finditer_starts(s, p + Len(UuidPattern))
         ELSE finditer_starts(s, p + 1)

\* mask_loop with prev_index set one character short of the match's end.
RECURSIVE mask_loop_ShortSkip(_, _, _, _)
mask_loop_ShortSkip(unmasked_line, starts, prev_index, masked) ==
    IF starts = <<>>
    THEN masked \o Slice(unmasked_line, prev_index, Len(unmasked_line))
    ELSE mask_loop_ShortSkip(unmasked_line, Tail(starts), starts[1] + Len(UUID_MASK) - 1,
                             masked \o Slice(unmasked_line, prev_index, starts[1])
                                    \o UUID_MASK)

\* The loop of lines 49-53 over the remaining start indices.
RECURSIVE mask_loop(_, _, _, _)
mask_loop(unmasked_line, starts, prev_index, masked) ==
    IF starts = <<>>
    THEN masked \o Slice(unmasked_line, prev_index, Len(unmasked_line))
    ELSE mask_loop(unmasked_line, Tail(starts), starts[1] + Len(UUID_MASK),
                   masked \o Slice(unmasked_line, prev_index, starts[1]) \o UUID_MASK)

mask_uuid4s(unmasked_line) ==
    mask_loop(unmasked_line, finditer_starts(unmasked_line, 0), 0, <<>>)

(***************************************************************************)
(* The scan loop of main, lines 60-90.  A loop state is a record of the    *)
(* loop's variables: i, skipping, just_stopped_skipping, result_lines.     *)
(***************************************************************************)
\* Lines 60-63.
ScanStart ==
    [i |-> 0, skipping |-> FALSE, just_stopped_skipping |-> FALSE, result_lines |-> <<>>]

\* ScanContinues without the break at the sentinel.
ScanContinues_NoBreak(ls, idx) == idx < Len(ls)

\* ScanContinues whose break comes after the sentinel line was handled.
ScanContinues_BreakAfter(ls, idx) ==
    idx < Len(ls) /\ (IF idx = 0 THEN TRUE ELSE ls[idx] # YB_DATA_END)

\* The loop condition of line 64 together with the break of lines 65-68.
ScanContinues(ls, idx) == idx < Len(ls) /\ ls[idx + 1] # YB_DATA_END

\* just_started_skipping without the look at the next line.
just_started_skipping_NoLookahead(ls, idx) == ls[idx + 1] = SANITIZER_SEPARATOR_LINE

\* The condition of lines 71-73: lines[i] opens a suppressions block.
just_started_skipping(ls, idx) ==
    /\ ls[idx + 1] = SANITIZER_SEPARATOR_LINE
    /\ idx + 1 < Len(ls)
    /\ ls[idx + 2] = SUPPRESSIONS_HEADER

\* The condition of lines 77-80, with `skip` the value of skipping after line 74.
Emits(ls, idx, skip, stopped) ==
    ~skip /\ ~(stopped /\ strip(ls[idx + 1]) = <<>>)

\* Closes without the test of just_started_skipping.
Closes_AtOpening(ls, idx, skip, started) ==
    skip /\ ls[idx + 1] = SANITIZER_SEPARATOR_LINE

\* Closes that takes a blank line for the end of a block as well.
Closes_AtBlank(ls, idx, skip, started) ==
    skip /\ ~started /\ (ls[idx + 1] = SANITIZER_SEPARATOR_LINE \/ strip(ls[idx + 1]) = <<>>)

\* The condition of lines 85-87.
Closes(ls, idx, skip, started) ==
    skip /\ ls[idx + 1] = SANITIZER_SEPARATOR_LINE /\ ~started

\* ScanBody with a `continue` before `i += 1` for a line dropped inside a block.
ScanBody_Continue(ls, s) ==
    LET started == just_started_skipping(ls, s.i)
        skip == s.skipping \/ started
        closes == Closes(ls, s.i, skip, started)
    IN  IF s.skipping /\ ~started /\ ~closes
        THEN s
        ELSE [i |-> s.i + 1,
              skipping |-> skip /\ ~closes,
              just_stopped_skipping |-> closes,
              result_lines |-> IF Emits(ls, s.i, skip, s.just_stopped_skipping)
                               THEN Append(s.result_lines, ls[s.i + 1])
                               ELSE s.result_lines]

\* ScanBody whose opening test of lines 71-73 is made only outside a block.
ScanBody_TriggerInNormalOnly(ls, s) ==
    LET started == ~s.skipping /\ just_started_skipping(ls, s.i)
        skip == s.skipping \/ started
        closes == Closes(ls, s.i, skip, started)
    IN  [i |-> s.i + 1,
         skipping |-> skip /\ ~closes,
         just_stopped_skipping |-> closes,
         result_lines |-> IF Emits(ls, s.i, skip, s.just_stopped_skipping)
                          THEN Append(s.result_lines, ls[s.i + 1])
                          ELSE s.result_lines]

\* ScanBody that keeps just_stopped_skipping set while blank lines follow.
ScanBody_AbsorbAll(ls, s) ==
    LET started == just_started_skipping(ls, s.i)
        skip == s.skipping \/ started
        closes == Closes(ls, s.i, skip, started)
    IN  [i |-> s.i + 1,
         skipping |-> skip /\ ~closes,
         just_stopped_skipping |->
             closes \/ (s.just_stopped_skipping /\ ~skip /\ strip(ls[s.i + 1]) = <<>>),
         result_lines |-> IF Emits(ls, s.i, skip, s.just_stopped_skipping)
                          THEN Append(s.result_lines, ls[s.i + 1])
                          ELSE s.result_lines]

\* ScanBody that appends the line without its surrounding whitespace.
ScanBody_AppendStripped(ls, s) ==
    LET started == just_started_skipping(ls, s.i)
        skip == s.skipping \/ started
        closes == Closes(ls, s.i, skip, started)
    IN  [i |-> s.i + 1,
         skipping |-> skip /\ ~closes,
         just_stopped_skipping |-> closes,
         result_lines |-> IF Emits(ls, s.i, skip, s.just_stopped_skipping)
                          THEN Append(s.result_lines, strip(ls[s.i + 1]))
                          ELSE s.result_lines]

\* ScanBody that decides the append of lines 77-81 before the opening test has
\* set `skipping`.
ScanBody_EmitsOpening(ls, s) ==
    LET started == just_started_skipping(ls, s.i)
        skip == s.skipping \/ started
        closes == Closes(ls, s.i, skip, started)
    IN  [i |-> s.i + 1,
         skipping |-> skip /\ ~closes,
         just_stopped_skipping |-> closes,
         result_lines |-> IF Emits(ls, s.i, s.skipping, s.just_stopped_skipping)
                          THEN Append(s.result_lines, ls[s.i + 1])
                          ELSE s.result_lines]

\* One iteration of the loop body, lines 70-90.
ScanBody(ls, s) ==
    LET started == just_started_skipping(ls, s.i)
        skip == s.skipping \/ started
        closes == Closes(ls, s.i, skip, started)
    IN  [i |-> s.i + 1,
         skipping |-> skip /\ ~closes,
         just_stopped_skipping |-> closes,
         result_lines |-> IF Emits(ls, s.i, skip, s.just_stopped_skipping)
                          THEN Append(s.result_lines, ls[s.i + 1])
                          ELSE s.result_lines]

\* The whole loop, from loop state s.
RECURSIVE ScanLoop(_, _)
ScanLoop(ls, s) ==
    IF ScanContinues(ls, s.i) THEN ScanLoop(ls, ScanBody(ls, s)) ELSE s

(***************************************************************************)
(* The trailing-blank trim, lines 92-97.                                   *)
(***************************************************************************)
\* TrimContinues as an `if`: only the last line is looked at.
TrimContinues_Once(rl, n) == n > 0 /\ n = Len(rl) /\ strip(rl[n]) = <<>>

\* The loop condition of line 94.
TrimContinues(rl, n) == n > 0 /\ strip(rl[n]) = <<>>

\* The loop of lines 94-95.
RECURSIVE TrimLoop(_, _)
TrimLoop(rl, n) == IF TrimContinues(rl, n) THEN TrimLoop(rl, n - 1) ELSE n

\* TrimSlice that forgets the slice.
TrimSlice_Kept(rl, n) == rl

\* Lines 96-97.
TrimSlice(rl, n) == IF n < Len(rl) THEN SubSeq(rl, 1, n) ELSE rl

(***************************************************************************)
(* main on an existing file as a function of the file's content,           *)
(* lines 32-100.                                                           *)
(***************************************************************************)
RstripAll(ls) == [k \in 1..Len(ls) |-> rstrip(ls[k])]

MaskAll(ls) == [k \in 1..Len(ls) |-> mask_uuid4s(ls[k])]

Normalize(text) ==
    LET ls == MaskAll(RstripAll(readlines(text)))
        rl == ScanLoop(ls, ScanStart).result_lines
    IN  Serialize(TrimSlice(rl, TrimLoop(rl, Len(rl))))

(***************************************************************************)
(* The inputs: paths and file contents.                                    *)
(***************************************************************************)
PathExpected ==
    <<"/", "r", "e", "g", "r", "e", "s", "s", "/", "e", "x", "p", "e", "c", "t", "e", "d",
    "/", "t">>

PathRelative ==
    <<"r", "e", "g", "r", "e", "s", "s", "/", "e", "x", "p", "e", "c", "t", "e", "d", "/",
    "t">>

PathDoubleSlash ==
    <<"/", "r", "e", "g", "r", "e", "s", "s", "/", "e", "x", "p", "e", "c", "t", "e", "d",
    "/", "/", "t">>

PathOther ==
    <<"/", "r", "e", "g", "r", "e", "s", "s", "/", "e", "x", "p", "e", "c", "t", "e", "d",
    "x", "/", "t">>

PathBare == <<"t">>

Paths == {PathExpected, PathRelative, PathDoubleSlash, PathOther, PathBare}

FragUuid ==
    <<"1", "2", "3", "e", "4", "5", "6", "7", "-", "e", "8", "9", "b", "-", "4", "2", "d",
    "3", "-", "a", "4", "5", "6", "-", "4", "2", "6", "6", "1", "4", "1", "7", "4", "0",
    "0", "0">>

FragUuidUpper ==
    <<"A", "B", "C", "D", "E", "F", "0", "1", "-", "2", "3", "4", "5", "-", "4", "A", "B",
    "C", "-", "B", "1", "2", "3", "-", "A", "B", "C", "D", "E", "F", "0", "1", "2", "3",
    "4", "5">>

\* A UUID without its first group: after a UUID it forms a second UUID-shaped
\* substring that overlaps the first.
FragTail ==
    <<"-", "e", "8", "9", "b", "-", "4", "2", "d", "3", "-", "a", "4", "5", "6", "-", "4",
    "2", "6", "6", "1", "4", "1", "7", "4", "0", "0", "0">>

FragWrongVersion ==
    <<"1", "2", "3", "e", "4", "5", "6", "7", "-", "e", "8", "9", "b", "-", "1", "2", "d",
    "3", "-", "a", "4", "5", "6", "-", "4", "2", "6", "6", "1", "4", "1", "7", "4", "0",
    "0", "0">>

FragWrongVariant ==
    <<"1", "2", "3", "e", "4", "5", "6", "7", "-", "e", "8", "9", "b", "-", "4", "2", "d",
    "3", "-", "c", "4", "5", "6", "-", "4", "2", "6", "6", "1", "4", "1", "7", "4", "0",
    "0", "0">>

FragHex == <<"0", "f">>

FragText == <<"i", "d", "=">>

Fragments ==
    {FragUuid, FragUuidUpper, FragTail, FragWrongVersion, FragWrongVariant, FragHex,
     FragText}

SeqsUpTo(S, n) == UNION {[1..k -> S] : k \in 0..n}

RECURSIVE Concat(_)
Concat(ss) == IF ss = <<>> THEN <<>> ELSE ss[1] \o Concat(Tail(ss))

\* The text of a file whose lines are doc, each ended by a newline.
Unlines(doc) == Concat([k \in 1..Len(doc) |-> doc[k] \o <<"\n">>])

BaseLines ==
    {SANITIZER_SEPARATOR_LINE, SUPPRESSIONS_HEADER, YB_DATA_END, <<>>, <<"a">>}

MarkerLines == {SANITIZER_SEPARATOR_LINE, SUPPRESSIONS_HEADER, <<>>}

RichLines ==
    {<<"a", " ", " ">>, <<" ", "\t">>, <<" ", "a">>,
     SANITIZER_SEPARATOR_LINE \o <<" ">>, <<" ">> \o SANITIZER_SEPARATOR_LINE,
     SUPPRESSIONS_HEADER \o <<"\t">>, YB_DATA_END \o <<" ">>,
     FragText \o FragUuid \o <<" ", "d", "o", "n", "e", "\r">>}

\* Files of plain and marker lines.
BaseFiles ==
    {Unlines(d) : d \in SeqsUpTo(BaseLines, MaxLines) \cup SeqsUpTo(MarkerLines, MaxMarkerLines)}

\* Files of lines with trailing whitespace, with and without a final newline.
RichFiles ==
    LET texts == {Unlines(d) : d \in SeqsUpTo(RichLines, MaxRichLines)}
    IN  texts \cup {SubSeq(t, 1, Len(t) - 1) : t \in texts \ {<<>>}}

\* One-line files made of UUIDs and near-UUIDs.
UuidFiles == {Unlines(<<Concat(fs)>>) : fs \in SeqsUpTo(Fragments, MaxFrags)}

\* Files of plain and marker lines for two invocations.
ConcFiles == {Unlines(d) : d \in SeqsUpTo(BaseLines, MaxConcLines)}

(***************************************************************************)
(* The run of main.                                                        *)
(***************************************************************************)
\* The position and the locals of a second invocation that was not started.
NotRunning ==
    [pc |-> "none", lines |-> <<>>, result_lines |-> <<>>, i |-> 0, skipping |-> FALSE,
     just_stopped_skipping |-> FALSE, new_len |-> 0]

Init ==
    /\ \/ /\ orig_exists = TRUE
          /\ path = PathExpected
          /\ orig_file \in BaseFiles \cup UuidFiles
       \/ /\ orig_exists = TRUE
          /\ path = PathOther
          /\ orig_file \in RichFiles
       \/ /\ orig_exists = FALSE
          /\ path \in Paths
          /\ orig_file = <<>>
    /\ exists = orig_exists
    /\ file = orig_file
    /\ pc = "check"
    /\ lines = <<>>
    /\ result_lines = <<>>
    /\ i = 0
    /\ skipping = FALSE
    /\ just_stopped_skipping = FALSE
    /\ new_len = 0
    /\ other = NotRunning

\* Lines 24-30: the file is missing and lies in an expected-output directory.
CreatePlaceholder ==
    /\ pc = "check"
    /\ ~exists
    /\ IsExpectedDir(path)
    /\ exists' = TRUE
    /\ file' = PLACEHOLDER_LINE
    /\ pc' = "read"
    /\ UNCHANGED <<other, path, orig_exists, orig_file, lines, result_lines, i, skipping,
                   just_stopped_skipping, new_len>>

\* Lines 24-27: nothing to create.
NoPlaceholder ==
    /\ pc = "check"
    /\ exists \/ ~IsExpectedDir(path)
    /\ pc' = "read"
    /\ UNCHANGED <<other, path, exists, file, orig_exists, orig_file, lines, result_lines, i,
                   skipping, just_stopped_skipping, new_len>>

\* ReadFile that opens the file in a truncating mode.
ReadFile_Truncates ==
    /\ pc = "read"
    /\ exists
    /\ lines' = readlines(file)
    /\ file' = <<>>
    /\ pc' = "rstrip"
    /\ UNCHANGED <<other, path, exists, orig_exists, orig_file, result_lines, i, skipping,
                   just_stopped_skipping, new_len>>

\* Lines 32-34 on an existing file.
ReadFile ==
    /\ pc = "read"
    /\ exists
    /\ lines' = readlines(file)
    /\ pc' = "rstrip"
    /\ UNCHANGED <<other, path, exists, file, orig_exists, orig_file, result_lines, i, skipping,
                   just_stopped_skipping, new_len>>

\* Line 33 on a missing file: open() raises and the run ends.
ReadFails ==
    /\ pc = "read"
    /\ ~exists
    /\ pc' = "error"
    /\ UNCHANGED <<other, path, exists, file, orig_exists, orig_file, lines, result_lines, i,
                   skipping, just_stopped_skipping, new_len>>

\* Line 39.
RstripLines ==
    /\ pc = "rstrip"
    /\ lines' = RstripAll(lines)
    /\ pc' = "mask"
    /\ UNCHANGED <<other, path, exists, file, orig_exists, orig_file, result_lines, i, skipping,
                   just_stopped_skipping, new_len>>

\* Lines 58-63.
MaskLines ==
    /\ pc = "mask"
    /\ lines' = MaskAll(lines)
    /\ result_lines' = ScanStart.result_lines
    /\ i' = ScanStart.i
    /\ skipping' = ScanStart.skipping
    /\ just_stopped_skipping' = ScanStart.just_stopped_skipping
    /\ pc' = "scan"
    /\ UNCHANGED <<other, path, exists, file, orig_exists, orig_file, new_len>>

\* The loop state held by the variables.
LoopState ==
    [i |-> i, skipping |-> skipping, just_stopped_skipping |-> just_stopped_skipping,
     result_lines |-> result_lines]

\* One iteration of the loop of lines 64-90.
ScanStep ==
    /\ pc = "scan"
    /\ ScanContinues(lines, i)
    /\ LET s == ScanBody(lines, LoopState)
       IN  /\ i' = s.i
           /\ skipping' = s.skipping
           /\ just_stopped_skipping' = s.just_stopped_skipping
           /\ result_lines' = s.result_lines
    /\ UNCHANGED <<other, path, exists, file, orig_exists, orig_file, pc, lines, new_len>>

\* The loop of lines 64-90 ends, at the end of the lines or at the break of
\* line 68; line 93.
ScanEnds ==
    /\ pc = "scan"
    /\ ~ScanContinues(lines, i)
    /\ new_len' = Len(result_lines)
    /\ pc' = "trim"
    /\ UNCHANGED <<other, path, exists, file, orig_exists, orig_file, lines, result_lines, i,
                   skipping, just_stopped_skipping>>

\* One iteration of the loop of lines 94-95.
TrimStep ==
    /\ pc = "trim"
    /\ TrimContinues(result_lines, new_len)
    /\ new_len' = new_len - 1
    /\ UNCHANGED <<other, path, exists, file, orig_exists, orig_file, pc, lines, result_lines, i,
                   skipping, just_stopped_skipping>>

\* The loop of lines 94-95 ends; lines 96-97.
TrimEnds ==
    /\ pc = "trim"
    /\ ~TrimContinues(result_lines, new_len)
    /\ result_lines' = TrimSlice(result_lines, new_len)
    /\ pc' = "open"
    /\ UNCHANGED <<other, path, exists, file, orig_exists, orig_file, lines, i, skipping,
                   just_stopped_skipping, new_len>>

\* Line 99: open(file_path, 'w') truncates the file.
OpenForWrite ==
    /\ pc = "open"
    /\ file' = <<>>
    /\ pc' = "write"
    /\ UNCHANGED <<other, path, exists, orig_exists, orig_file, lines, result_lines, i, skipping,
                   just_stopped_skipping, new_len>>

\* Line 100: the text goes to the start of the file, where the descriptor
\* opened at line 99 stands; what the file holds beyond the text stays.
Overlay(old, text) == text \o SubSeq(old, Len(text) + 1, Len(old))

\* WriteFile that writes at the end of the file.
WriteFile_Append ==
    /\ pc = "write"
    /\ file' = file \o Serialize(result_lines)
    /\ pc' = "done"
    /\ UNCHANGED <<other, path, exists, orig_exists, orig_file, lines, result_lines, i, skipping,
                   just_stopped_skipping, new_len>>

\* Line 100: the text is written and the file closed.
WriteFile ==
    /\ pc = "write"
    /\ file' = Overlay(file, Serialize(result_lines))
    /\ pc' = "done"
    /\ UNCHANGED <<other, path, exists, orig_exists, orig_file, lines, result_lines, i, skipping,
                   just_stopped_skipping, new_len>>

Next ==
    \/ CreatePlaceholder
    \/ NoPlaceholder
    \/ ReadFile
    \/ ReadFails
    \/ RstripLines
    \/ MaskLines
    \/ ScanStep
    \/ ScanEnds
    \/ TrimStep
    \/ TrimEnds
    \/ OpenForWrite
    \/ WriteFile

Spec == Init /\ [][Next]_vars

\* The interpreter keeps running the two loops of main: an iteration or a loop
\* exit that is possible is not delayed forever.
FairSpec ==
    Spec /\ WF_vars(ScanStep) /\ WF_vars(ScanEnds) /\ WF_vars(TrimStep) /\ WF_vars(TrimEnds)

(***************************************************************************)
(* Two invocations of main on the same path.  The first is the run above;  *)
(* the position and the locals of the second are the fields of `other`.    *)
(* The two share the file on disk and nothing else.                        *)
(***************************************************************************)
\* Lines 24-30 in the second invocation.
OtherCreatePlaceholder ==
    /\ other.pc = "check"
    /\ ~exists
    /\ IsExpectedDir(path)
    /\ exists' = TRUE
    /\ file' = PLACEHOLDER_LINE
    /\ other' = [other EXCEPT !.pc = "read"]
    /\ UNCHANGED <<path, orig_exists, orig_file, pc, lines, result_lines, i, skipping,
                   just_stopped_skipping, new_len>>

\* Lines 24-27 in the second invocation.
OtherNoPlaceholder ==
    /\ other.pc = "check"
    /\ exists \/ ~IsExpectedDir(path)
    /\ other' = [other EXCEPT !.pc = "read"]
    /\ UNCHANGED <<path, orig_exists, orig_file, pc, lines, result_lines, i, skipping,
                   just_stopped_skipping, new_len, exists, file>>

\* Lines 32-34 in the second invocation.
OtherReadFile ==
    /\ other.pc = "read"
    /\ exists
    /\ other' = [other EXCEPT !.lines = readlines(file), !.pc = "rstrip"]
    /\ UNCHANGED <<path, orig_exists, orig_file, pc, lines, result_lines, i, skipping,
                   just_stopped_skipping, new_len, exists, file>>

\* Line 33 in the second invocation, on a missing file.
OtherReadFails ==
    /\ other.pc = "read"
    /\ ~exists
    /\ other' = [other EXCEPT !.pc = "error"]
    /\ UNCHANGED <<path, orig_exists, orig_file, pc, lines, result_lines, i, skipping,
                   just_stopped_skipping, new_len, exists, file>>

\* Line 39 in the second invocation.
OtherRstripLines ==
    /\ other.pc = "rstrip"
    /\ other' = [other EXCEPT !.lines = RstripAll(@), !.pc = "mask"]
    /\ UNCHANGED <<path, orig_exists, orig_file, pc, lines, result_lines, i, skipping,
                   just_stopped_skipping, new_len, exists, file>>

\* Lines 58-63 in the second invocation.
OtherMaskLines ==
    /\ other.pc = "mask"
    /\ other' = [other EXCEPT !.lines = MaskAll(@),
                              !.result_lines = ScanStart.result_lines,
                              !.i = ScanStart.i,
                              !.skipping = ScanStart.skipping,
                              !.just_stopped_skipping = ScanStart.just_stopped_skipping,
                              !.pc = "scan"]
    /\ UNCHANGED <<path, orig_exists, orig_file, pc, lines, result_lines, i, skipping,
                   just_stopped_skipping, new_len, exists, file>>

\* The loop state held by the second invocation.
OtherLoopState ==
    [i |-> other.i, skipping |-> other.skipping,
     just_stopped_skipping |-> other.just_stopped_skipping,
     result_lines |-> other.result_lines]

\* One iteration of the loop of lines 64-90 in the second invocation.
OtherScanStep ==
    /\ other.pc = "scan"
    /\ ScanContinues(other.lines, other.i)
    /\ LET s == ScanBody(other.lines, OtherLoopState)
       IN  other' = [other EXCEPT !.i = s.i,
                                  !.skipping = s.skipping,
                                  !.just_stopped_skipping = s.just_stopped_skipping,
                                  !.result_lines = s.result_lines]
    /\ UNCHANGED <<path, orig_exists, orig_file, pc, lines, result_lines, i, skipping,
                   just_stopped_skipping, new_len, exists, file>>

\* The loop of lines 64-90 ends in the second invocation; line 93.
OtherScanEnds ==
    /\ other.pc = "scan"
    /\ ~ScanContinues(other.lines, other.i)
    /\ other' = [other EXCEPT !.new_len = Len(other.result_lines), !.pc = "trim"]
    /\ UNCHANGED <<path, orig_exists, orig_file, pc, lines, result_lines, i, skipping,
                   just_stopped_skipping, new_len, exists, file>>

\* One iteration of the loop of lines 94-95 in the second invocation.
OtherTrimStep ==
    /\ other.pc = "trim"
    /\ TrimContinues(other.result_lines, other.new_len)
    /\ other' = [other EXCEPT !.new_len = @ - 1]
    /\ UNCHANGED <<path, orig_exists, orig_file, pc, lines, result_lines, i, skipping,
                   just_stopped_skipping, new_len, exists, file>>

\* The loop of lines 94-95 ends in the second invocation; lines 96-97.
OtherTrimEnds ==
    /\ other.pc = "trim"
    /\ ~TrimContinues(other.result_lines, other.new_len)
    /\ other' = [other EXCEPT !.result_lines = TrimSlice(@, other.new_len), !.pc = "open"]
    /\ UNCHANGED <<path, orig_exists, orig_file, pc, lines, result_lines, i, skipping,
                   just_stopped_skipping, new_len, exists, file>>

\* Line 99 in the second invocation.
OtherOpenForWrite ==
    /\ other.pc = "open"
    /\ file' = <<>>
    /\ other' = [other EXCEPT !.pc = "write"]
    /\ UNCHANGED <<path, orig_exists, orig_file, pc, lines, result_lines, i, skipping,
                   just_stopped_skipping, new_len, exists>>

\* Line 100 in the second invocation.
OtherWriteFile ==
    /\ other.pc = "write"
    /\ file' = Overlay(file, Serialize(other.result_lines))
    /\ other' = [other EXCEPT !.pc = "done"]
    /\ UNCHANGED <<path, orig_exists, orig_file, pc, lines, result_lines, i, skipping,
                   just_stopped_skipping, new_len, exists>>

OtherNext ==
    \/ OtherCreatePlaceholder
    \/ OtherNoPlaceholder
    \/ OtherReadFile
    \/ OtherReadFails
    \/ OtherRstripLines
    \/ OtherMaskLines
    \/ OtherScanStep
    \/ OtherScanEnds
    \/ OtherTrimStep
    \/ OtherTrimEnds
    \/ OtherOpenForWrite
    \/ OtherWriteFile

\* Both invocations are started on the same path before either has run.
ConcInit ==
    /\ \/ /\ orig_exists = TRUE
          /\ path = PathExpected
          /\ orig_file \in ConcFiles
       \/ /\ orig_exists = FALSE
          /\ path \in {PathExpected, PathOther}
          /\ orig_file = <<>>
    /\ exists = orig_exists
    /\ file = orig_file
    /\ pc = "check"
    /\ lines = <<>>
    /\ result_lines = <<>>
    /\ i = 0
    /\ skipping = FALSE
    /\ just_stopped_skipping = FALSE
    /\ new_len = 0
    /\ other = [NotRunning EXCEPT !.pc = "check"]

ConcNext == Next \/ OtherNext

ConcSpec == ConcInit /\ [][ConcNext]_vars

(***************************************************************************)
(* Vocabulary of the properties.                                           *)
(***************************************************************************)
Last(ls) == ls[Len(ls)]

IsBlank(l) == \A k \in 1..Len(l) : l[k] \in Whitespace

IsSep(l) == l = SANITIZER_SEPARATOR_LINE

\* Whether ls holds a separator line directly followed by the header line.
HasOpening(ls) ==
    \E k \in 1..(Len(ls) - 1) : IsSep(ls[k]) /\ ls[k + 1] = SUPPRESSIONS_HEADER

HasSentinel(ls) == \E k \in 1..Len(ls) : ls[k] = YB_DATA_END

\* The position of the first sentinel line of ls, Len(ls) + 1 if there is none.
SentinelAt(ls) ==
    IF HasSentinel(ls)
    THEN CHOOSE k \in 1..Len(ls) :
             ls[k] = YB_DATA_END /\ \A m \in 1..(k - 1) : ls[m] # YB_DATA_END
    ELSE Len(ls) + 1

BeforeSentinel(ls) == SubSeq(ls, 1, SentinelAt(ls) - 1)

\* The number of separator lines among the first j lines of ls.
SepCount(ls, j) == Cardinality({m \in 1..j : IsSep(ls[m])})

\* The lines of ls at the positions in idx, in order.
RECURSIVE LinesAt(_, _, _)
LinesAt(ls, idx, from) ==
    IF from > Len(ls) THEN <<>>
    ELSE (IF from \in idx THEN <<ls[from]>> ELSE <<>>) \o LinesAt(ls, idx, from + 1)

\* Every separator of ls is the opening or the closing one of a well-formed
\* block: the odd separators are followed by the header, the even ones are not,
\* and the last block is closed.
WellFormedBlocks(ls) ==
    /\ ~HasSentinel(ls)
    /\ SepCount(ls, Len(ls)) % 2 = 0
    /\ \A j \in 1..Len(ls) :
           IsSep(ls[j]) =>
               LET followed == j < Len(ls) /\ ls[j + 1] = SUPPRESSIONS_HEADER
               IN  (SepCount(ls, j) % 2 = 1) <=> followed

\* Line j of ls lies in a block, its two separators included.
InBlock(ls, j) == IsSep(ls[j]) \/ SepCount(ls, j) % 2 = 1

\* Line j of ls is the blank line directly after a closing separator.
AfterBlockBlank(ls, j) ==
    /\ j > 1
    /\ IsSep(ls[j - 1])
    /\ SepCount(ls, j - 1) % 2 = 0
    /\ IsBlank(ls[j])

\* The lines of ls outside every block, less the blank line after each block.
OutsideBlocks(ls) ==
    LinesAt(ls, {j \in 1..Len(ls) : ~InBlock(ls, j) /\ ~AfterBlockBlank(ls, j)}, 1)

\* The lines read from the original file with trailing whitespace removed.
TrimmedInput == RstripAll(readlines(orig_file))

(***************************************************************************)
(* C1.  Idempotence: running the whole normalization on the output of a    *)
(* first run yields the same document.  As stated, for every document:     *)
(***************************************************************************)
\* C1 as stated: a second run reproduces the output of the first, always.
C1_IdempotentAlways == pc = "done" => Normalize(file) = file

\* C1 as amended: a second run reproduces the output of the first whenever that
\* output holds no separator line directly followed by the header line.
C1_IdempotentWithoutOpening ==
    (pc = "done" /\ ~HasOpening(result_lines)) => Normalize(file) = file

C1_Witness ==
    /\ pc = "done"
    /\ ~HasOpening(result_lines)
    /\ HasOpening(lines)
    /\ result_lines # <<>>
    /\ file # orig_file

(***************************************************************************)
(* C2.  The surviving lines are empty or end with a non-blank line; the    *)
(* output is those lines, each followed by one newline, and is a single    *)
(* newline when no line survives or the input file is empty.               *)
(***************************************************************************)
\* C2: the shape of the surviving lines and of the written text.
C2_OutputShape ==
    pc = "done" =>
        /\ result_lines = <<>> \/ ~IsBlank(Last(result_lines))
        /\ file # <<>> /\ Last(file) = "\n"
        /\ Len(file) >= 2 => file[Len(file) - 1] # "\n"
        /\ result_lines = <<>> => file = <<"\n">>
        /\ result_lines # <<>> =>
               readlines(file) = [k \in 1..Len(result_lines) |-> result_lines[k] \o <<"\n">>]
        /\ (orig_exists /\ orig_file = <<>>) => file = <<"\n">>

C2_Witness ==
    /\ pc = "done"
    /\ Len(result_lines) >= 2
    /\ Len(orig_file) >= 2
    /\ orig_file[Len(orig_file) - 1] = "\n"
    /\ Last(orig_file) = "\n"

(***************************************************************************)
(* C3.  Sentinel truncation.  As stated: when the first sentinel line is   *)
(* line k, the output is exactly the first k-1 lines of the trimmed and    *)
(* masked document.                                                        *)
(***************************************************************************)
\* C3 as stated: the output is the lines before the first sentinel.
C3_ExactlyFirstLines ==
    (pc = "done" /\ HasSentinel(lines)) => result_lines = BeforeSentinel(lines)

\* C3 as amended: the output is what block elision and the trailing-blank trim
\* make of the first k-1 lines alone, whatever follows the sentinel, and it is
\* exactly those lines when none is a separator and the last is not blank.
C3_OnlyFirstLines ==
    (pc = "done" /\ HasSentinel(lines)) =>
        LET head == BeforeSentinel(lines)
            rl == ScanLoop(head, ScanStart).result_lines
        IN  /\ result_lines = TrimSlice(rl, TrimLoop(rl, Len(rl)))
            /\ ((\A k \in 1..Len(head) : ~IsSep(head[k]))
                /\ (head = <<>> \/ ~IsBlank(Last(head))))
               => result_lines = head

C3_Witness ==
    /\ pc = "done"
    /\ HasSentinel(lines)
    /\ SentinelAt(lines) >= 2
    /\ SentinelAt(lines) < Len(lines)
    /\ result_lines = BeforeSentinel(lines)

(***************************************************************************)
(* C4.  In a document without sentinel whose separators all belong to      *)
(* well-formed blocks, the scan drops every line of every block and the    *)
(* blank line directly after a closing separator, and emits every other    *)
(* line unchanged and in order.                                            *)
(***************************************************************************)
\* C4: the scan's result is the lines outside the blocks, less the blank line
\* after each block.
C4_BlocksRemoved ==
    (pc = "trim" /\ WellFormedBlocks(lines)) => result_lines = OutsideBlocks(lines)

C4_Witness ==
    /\ pc = "trim"
    /\ WellFormedBlocks(lines)
    /\ \E j \in 1..Len(lines) : AfterBlockBlank(lines, j)
    /\ result_lines # <<>>

(***************************************************************************)
(* C5.  Malformed markers are ordinary content.  As stated: a separator    *)
(* without a partner separator, followed by the header or not, is passed   *)
(* through with the lines around it.                                       *)
(***************************************************************************)
\* C5 as stated: with a single separator and no sentinel the scan's result is
\* the whole document.
C5_UnmatchedPassedThrough ==
    (pc = "trim" /\ ~HasSentinel(lines) /\ SepCount(lines, Len(lines)) = 1)
        => result_lines = lines

\* C5 as amended: where no separator is directly followed by the header, every
\* line before the sentinel is passed through; a lone separator that is
\* directly followed by the header is dropped with every line after it; and main
\* raises nothing on an existing file.
C5_NoTriggerPassedThrough ==
    /\ (pc = "trim" /\ ~HasOpening(lines)) => result_lines = BeforeSentinel(lines)
    /\ (pc = "trim" /\ ~HasSentinel(lines) /\ SepCount(lines, Len(lines)) = 1
        /\ HasOpening(lines))
       => \E j \in 1..Len(lines) : IsSep(lines[j]) /\ result_lines = SubSeq(lines, 1, j - 1)
    /\ orig_exists => pc # "error"

C5_Witness ==
    /\ pc = "trim"
    /\ ~HasOpening(lines)
    /\ SepCount(lines, Len(lines)) = 1
    /\ \E k \in 1..Len(lines) : lines[k] = SUPPRESSIONS_HEADER
    /\ result_lines = lines

(***************************************************************************)
(* C6.  After mask_uuid4s has run, no line holds a substring that matches  *)
(* the UUID pattern, also when UUID-shaped substrings of the input overlap *)
(* or are adjacent.                                                        *)
(***************************************************************************)
ContainsUuid(l) == \E p \in 0..Len(l) : MatchAt(l, p)

\* C6: once masked, no line matches the UUID pattern anywhere.
C6_NoUuidRemains ==
    pc \in {"scan", "trim", "open", "write", "done"} =>
        \A k \in 1..Len(lines) : ~ContainsUuid(lines[k])

\* A line with two overlapping UUID-shaped substrings has been masked.
C6_Witness ==
    /\ pc = "scan"
    /\ i = 0
    /\ \E k \in 1..Len(lines) :
           /\ lines[k] # TrimmedInput[k]
           /\ \E p, q \in 0..Len(lines[k]) :
                  /\ p < q /\ q < p + Len(UuidPattern)
                  /\ MatchAt(TrimmedInput[k], p)
                  /\ MatchAt(TrimmedInput[k], q)

(***************************************************************************)
(* C7.  mask_uuid4s keeps the length of the line, puts the 36-character    *)
(* mask at the position of each leftmost non-overlapping match and leaves  *)
(* every character outside the matched spans unchanged.                    *)
(***************************************************************************)
\* The starts of the leftmost non-overlapping matches of l: the matches that no
\* earlier chosen match overlaps.
LeftmostStarts(l) ==
    LET cand == {p \in 0..Len(l) : MatchAt(l, p)}
    IN  CHOOSE S \in SUBSET cand :
            \A p \in cand :
                p \in S <=> ~\E q \in S : q < p /\ p < q + Len(UuidPattern)

\* m is l with the mask at each of the starts and nothing else changed.
MaskedAt(l, m, starts) ==
    /\ Len(m) = Len(l)
    /\ Len(UUID_MASK) = Len(UuidPattern)
    /\ \A c \in 1..Len(l) :
           IF \E p \in starts : p < c /\ c <= p + Len(UUID_MASK)
           THEN \A p \in starts :
                    (p < c /\ c <= p + Len(UUID_MASK)) => m[c] = UUID_MASK[c - p]
           ELSE m[c] = l[c]

MaskedAsSpecified(l, m) == MaskedAt(l, m, LeftmostStarts(l))

\* C7: the masking step turns each line into a line masked as specified.
C7_MaskInPlace ==
    [][pc = "mask" =>
           /\ Len(lines') = Len(lines)
           /\ \A k \in 1..Len(lines) : MaskedAsSpecified(lines[k], lines'[k])]_vars

\* A line with text before its first match and after its last has been masked.
C7_Witness ==
    /\ pc = "scan"
    /\ i = 0
    /\ \E k \in 1..Len(lines) :
           /\ LeftmostStarts(TrimmedInput[k]) # {}
           /\ \A p \in LeftmostStarts(TrimmedInput[k]) :
                  p > 0 /\ p + Len(UUID_MASK) < Len(lines[k])
           /\ lines[k] # TrimmedInput[k]
           /\ MaskedAsSpecified(TrimmedInput[k], lines[k])

(***************************************************************************)
(* C8.  The scan loop terminates without raising: the index grows by one   *)
(* on every iteration and stays within the lines, the loop ends at the end *)
(* of the lines or at the first sentinel, and the trim loop terminates     *)
(* too.                                                                    *)
(***************************************************************************)
\* C8: the indices stay in range, move by one, and both loops come to their end.
C8_ScanTerminates ==
    /\ [](pc = "scan" => i \in 0..Len(lines))
    /\ [](pc = "trim" => new_len \in 0..Len(result_lines))
    /\ [][(pc = "scan" /\ pc' = "scan") => (i < Len(lines) /\ i' = i + 1)]_vars
    /\ [][(pc = "scan" /\ pc' # "scan") =>
              /\ pc' = "trim"
              /\ i = SentinelAt(lines) - 1]_vars
    /\ [][(pc = "trim" /\ pc' = "trim") => new_len' = new_len - 1]_vars
    /\ (pc = "scan") ~> (pc = "trim")
    /\ (pc = "trim") ~> (pc = "open")

\* The scan has ended at a sentinel inside an open block and the trim has run.
C8_Witness ==
    /\ pc = "open"
    /\ skipping
    /\ i < Len(lines)
    /\ i > 0
    /\ new_len < i

(***************************************************************************)
(* C9.  The placeholder file is created exactly when the file is missing   *)
(* and the directory part of the path ends with /regress/expected; it then *)
(* goes through the pipeline and ends up as that one line and one newline. *)
(* A missing file elsewhere makes the run fail, and no file is created.    *)
(***************************************************************************)
\* The paths of the inputs whose directory part ends with /regress/expected.
InExpectedDir == path \in {PathExpected, PathDoubleSlash}

\* C9: when the placeholder is created, what it ends up as, and when the run
\* fails instead.
C9_Placeholder ==
    /\ (exists /\ ~orig_exists) => InExpectedDir
    /\ (~orig_exists /\ InExpectedDir /\ pc # "check") => exists
    /\ (~orig_exists /\ InExpectedDir /\ pc = "read") => file = PLACEHOLDER_LINE
    /\ (~orig_exists /\ InExpectedDir) => pc # "error"
    /\ (~orig_exists /\ InExpectedDir /\ pc = "done") =>
           /\ file = PLACEHOLDER_LINE
           /\ Len(readlines(file)) = 1
    /\ (~orig_exists /\ ~InExpectedDir) => (~exists /\ pc \in {"check", "read", "error"})
    /\ pc = "error" => (~orig_exists /\ ~InExpectedDir)
    /\ orig_exists => exists

C9_Witness == pc = "done" /\ ~orig_exists /\ file = PLACEHOLDER_LINE

(***************************************************************************)
(* C10.  No partial results.  As stated: in every state of a run on an     *)
(* existing file, the file holds the full original content or the full     *)
(* normalized content.                                                     *)
(***************************************************************************)
\* C10 as stated: the file of a run on an existing file always holds the
\* original or the normalized content.
C10_OriginalOrNormalized ==
    orig_exists => file \in {orig_file, Normalize(orig_file)}

IsPrefix(a, b) == Len(a) <= Len(b) /\ SubSeq(b, 1, Len(a)) = a

\* C10 as amended: the file keeps its original content until it is opened for
\* writing, which happens only once the normalized lines are complete; after the
\* write it holds the normalized content; between the truncating open and the
\* write it is truncated, holding neither.
C10_TruncatedBetweenOpenAndWrite ==
    orig_exists =>
        /\ pc \in {"check", "read", "rstrip", "mask", "scan", "trim", "open"}
               => file = orig_file
        /\ pc \in {"open", "write"} => Serialize(result_lines) = Normalize(orig_file)
        /\ pc = "write" =>
               /\ IsPrefix(file, Normalize(orig_file))
               /\ file # Normalize(orig_file)
        /\ pc = "done" => file = Normalize(orig_file)

C10_Witness ==
    /\ orig_exists
    /\ pc = "write"
    /\ file # orig_file
    /\ file # Normalize(orig_file)
    /\ Len(result_lines) >= 2


(***************************************************************************)
(* C11.  Two invocations on one path.                                      *)
(***************************************************************************)
BothDone == pc = "done" /\ other.pc = "done"

\* What two interleaved runs can leave in a file that held text: the
\* normalization of text, a single newline (one run read the file while it was
\* truncated), that newline written over the start of the normalization (both
\* opened, then both wrote), or the normalization of the normalization (one run
\* read what the other had written).
ConcFinals(text) ==
    LET one == Normalize(text)
    IN  {one, <<"\n">>, Overlay(one, <<"\n">>), Normalize(one)}

\* C11: nothing orders the read, the truncation and the write of two
\* invocations on the same path: once both are done the file holds one of the
\* contents of ConcFinals, and (C11_Witness) a content other than the
\* single-run normalization of the original content is reached.
C11_ConcurrentFinals ==
    (BothDone /\ orig_exists) => file \in ConcFinals(orig_file)

\* Both invocations are done and the file is not the normalization of the
\* original content: it holds a single newline, written by the invocation that
\* read the file after the other had truncated it.
C11_Witness ==
    /\ BothDone
    /\ orig_exists
    /\ file # Normalize(orig_file)
    /\ file = <<"\n">>
    /\ other.lines = <<>>
    /\ lines # <<>>

(***************************************************************************)
(* C12.  The transitions of the scan at a separator line.                  *)
(***************************************************************************)
\* The scan takes one iteration.
ScanIteration == pc = "scan" /\ pc' = "scan" /\ i' = i + 1

\* The line the scan is at, and whether the header follows it.
CurrentLine == lines[i + 1]

HeaderFollows == i + 2 <= Len(lines) /\ lines[i + 2] = SUPPRESSIONS_HEADER

\* The iteration drops its line and leaves the machine as stated.
DropsInto(skip, stopped) ==
    /\ result_lines' = result_lines
    /\ skipping' = skip
    /\ just_stopped_skipping' = stopped

\* C12 as stated: the machine enters SKIPPING only at a separator that the
\* header follows, and in SKIPPING every separator line is dropped and returns
\* the machine to NORMAL, whatever line follows it.
C12_EverySeparatorCloses ==
    [][ScanIteration =>
        /\ (~skipping /\ skipping') => (IsSep(CurrentLine) /\ HeaderFollows)
        /\ (skipping /\ IsSep(CurrentLine)) => DropsInto(FALSE, TRUE)]_vars

\* C12, amended: the opening test is made in every iteration.  NORMAL moves to
\* SKIPPING exactly at a separator that the header follows.  In SKIPPING every
\* line is dropped; a separator that the header does not follow returns the
\* machine to NORMAL, a separator that the header follows leaves it in
\* SKIPPING, and so does every other line.
C12_SeparatorClosesUnlessHeaderFollows ==
    [][ScanIteration =>
        /\ (~skipping /\ skipping') <=> (~skipping /\ IsSep(CurrentLine) /\ HeaderFollows)
        /\ (skipping /\ IsSep(CurrentLine) /\ ~HeaderFollows) => DropsInto(FALSE, TRUE)
        /\ (skipping /\ IsSep(CurrentLine) /\ HeaderFollows) => DropsInto(TRUE, FALSE)
        /\ (skipping /\ ~IsSep(CurrentLine)) => DropsInto(TRUE, FALSE)]_vars

\* Five lines are scanned: a block opening, a separator that the header
\* follows, that header, and a separator that closes.  Nothing was emitted, so
\* the separator of line 3 did not close the block.
C12_Witness ==
    /\ pc = "scan"
    /\ i = 5
    /\ SubSeq(lines, 1, 5) =
           <<SANITIZER_SEPARATOR_LINE, SUPPRESSIONS_HEADER, SANITIZER_SEPARATOR_LINE,
             SUPPRESSIONS_HEADER, SANITIZER_SEPARATOR_LINE>>
    /\ Len(lines) > 5
    /\ result_lines = <<>>
    /\ ~skipping
    /\ just_stopped_skipping

(***************************************************************************)
(* C13.  A block that is never closed.                                     *)
(***************************************************************************)
\* The position of the first separator line of ls, 0 if there is none.
FirstSep(ls) ==
    IF \E k \in 1..Len(ls) : IsSep(ls[k])
    THEN CHOOSE k \in 1..Len(ls) : IsSep(ls[k]) /\ \A m \in 1..(k - 1) : ~IsSep(ls[m])
    ELSE 0

\* The first separator of ls opens a block and no later line closes it: the
\* header follows the first separator, and every later separator as well.
UnclosedBlock(ls) ==
    /\ FirstSep(ls) > 0
    /\ \A q \in FirstSep(ls)..Len(ls) :
           IsSep(ls[q]) => (q < Len(ls) /\ ls[q + 1] = SUPPRESSIONS_HEADER)

\* C13: when the scan has entered SKIPPING at an opening separator and no
\* separator closes the block before the end of the document or the sentinel,
\* the scan emits the lines before the opening separator and nothing else, and
\* it ends in SKIPPING, at the end of the document or at the sentinel; no run
\* on an existing file ends in an error.
C13_UnclosedBlockDropsRest ==
    /\ (pc = "trim" /\ UnclosedBlock(BeforeSentinel(lines))) =>
           /\ result_lines = SubSeq(lines, 1, FirstSep(lines) - 1)
           /\ skipping
           /\ i = SentinelAt(lines) - 1
    /\ pc = "error" => ~orig_exists

\* The scan has ended on a document with lines before the opening separator
\* and lines after the header, none of them a closing separator.
C13_Witness ==
    /\ pc = "trim"
    /\ UnclosedBlock(BeforeSentinel(lines))
    /\ FirstSep(lines) > 1
    /\ Len(BeforeSentinel(lines)) >= FirstSep(lines) + 2
    /\ skipping
    /\ result_lines = SubSeq(lines, 1, FirstSep(lines) - 1)

(***************************************************************************)
(* C14.  The blank line after a block.                                     *)
(***************************************************************************)
\* Line k of ls is a separator that the header follows.
OpeningAt(ls, k) ==
    k < Len(ls) /\ IsSep(ls[k]) /\ ls[k + 1] = SUPPRESSIONS_HEADER

\* The position of the separator that closes the block opened at the first
\* separator of ls: the first later separator that the header does not follow;
\* 0 if the first separator opens no block or the block is not closed.
FirstClose(ls) ==
    LET p == FirstSep(ls)
        closing == {q \in (p + 1)..Len(ls) : IsSep(ls[q]) /\ ~OpeningAt(ls, q)}
    IN  IF p > 0 /\ OpeningAt(ls, p) /\ closing # {}
        THEN CHOOSE q \in closing : \A r \in closing : q <= r
        ELSE 0

\* The number of blank lines of ls that directly follow line c.
BlanksAfter(ls, c) ==
    CHOOSE n \in 0..(Len(ls) - c) :
        /\ \A k \in (c + 1)..(c + n) : IsBlank(ls[k])
        /\ c + n = Len(ls) \/ ~IsBlank(ls[c + n + 1])

\* The scan's result on a document whose first block is closed at line c and
\* followed by n blank lines and a non-blank line: n - 1 of the blank lines are
\* emitted after the lines before the block, and then the non-blank line unless
\* it is the sentinel or opens a block.  A non-blank line directly after c is
\* emitted, and so is a blank line after it.
BlanksAfterFirstBlock ==
    LET head == BeforeSentinel(lines)
        base == FirstSep(head) - 1
        c == FirstClose(head)
        n == BlanksAfter(head, c)
    IN  /\ (c > 0 /\ n >= 1 /\ c + n < Len(lines)) =>
               /\ Len(result_lines) >= base + n - 1
               /\ \A k \in 1..(n - 1) : IsBlank(result_lines[base + k])
               /\ c + n = Len(head) => Len(result_lines) = base + n - 1
               /\ (c + n < Len(head) /\ ~OpeningAt(lines, c + n + 1)) =>
                      /\ Len(result_lines) >= base + n
                      /\ result_lines[base + n] = lines[c + n + 1]
        /\ (c > 0 /\ n = 0 /\ c + 2 <= Len(head) /\ ~OpeningAt(lines, c + 1)
              /\ IsBlank(lines[c + 2])) =>
               /\ Len(result_lines) >= base + 2
               /\ result_lines[base + 1] = lines[c + 1]
               /\ result_lines[base + 2] = lines[c + 2]

TruncatePass(ls) == BeforeSentinel(ls)

\* The block scan as a pass of its own, over the whole of the document it is
\* given, from loop state s.
RECURSIVE ElidePass(_, _)
ElidePass(ls, s) == IF s.i < Len(ls) THEN ElidePass(ls, ScanBody(ls, s)) ELSE s

\* The trailing trim as a pass of its own: the lines up to the last non-blank
\* one.
TrimPass(rl) ==
    LET kept == {k \in 1..Len(rl) : ~IsBlank(rl[k])}
    IN  IF kept = {} THEN <<>>
        ELSE SubSeq(rl, 1, CHOOSE k \in kept : \A m \in kept : m <= k)

\* What the passes make of ls, one after the other.
StagedScan(ls) == ElidePass(TruncatePass(ls), ScanStart).result_lines

\* C15: for every document the loop of main, which tests the sentinel, the
\* opening (looking one line ahead in the untruncated document) and the
\* closing in one iteration, produces what separate passes produce: truncate at
\* the first sentinel, scan the truncated document for blocks, trim the
\* trailing blank lines; the file holds those lines, each ended by a newline,
\* or a single newline if there is none.
C15_StagedPasses ==
    /\ pc = "trim" => result_lines = StagedScan(lines)
    /\ pc \in {"open", "write", "done"} => result_lines = TrimPass(StagedScan(lines))
    /\ pc = "done" => file = Serialize(TrimPass(StagedScan(lines)))

\* The run is done on a document whose sentinel lies inside a block that is
\* still open, with a separator directly after the sentinel.
C15_Witness ==
    /\ pc = "done"
    /\ skipping
    /\ HasSentinel(lines)
    /\ SentinelAt(lines) < Len(lines)
    /\ IsSep(lines[SentinelAt(lines) + 1])
    /\ i = SentinelAt(lines) - 1
    /\ file = Serialize(TrimPass(StagedScan(lines)))

(***************************************************************************)
(* C16.  The result is made of input lines.                                *)
(***************************************************************************)
\* rl is ls with some of its lines left out, the order kept.
RECURSIVE IsSubseq(_, _)
IsSubseq(rl, ls) ==
    IF rl = <<>> THEN TRUE
    ELSE IF ls = <<>> THEN FALSE
    ELSE IF rl[1] = ls[1] THEN IsSubseq(Tail(rl), Tail(ls))
    ELSE IsSubseq(rl, Tail(ls))

\* C16: from the start of the scan on, result_lines is made of lines among the
\* first i of the trimmed and masked input lines, in their order and unaltered,
\* so it is no longer than i and none of its lines ends in whitespace; the
\* lines are the trimmed and masked lines of the file, and the file written
\* holds the lines of result_lines.
C16_ResultIsSubsequence ==
    /\ pc \in {"scan", "trim", "open", "write", "done"} =>
           /\ IsSubseq(result_lines, SubSeq(lines, 1, i))
           /\ Len(result_lines) <= i
           /\ i <= Len(lines)
           /\ \A k \in 1..Len(result_lines) : rstrip(result_lines[k]) = result_lines[k]
    /\ pc = "done" =>
           /\ orig_exists => lines = MaskAll(TrimmedInput)
           /\ file = Serialize(result_lines)

\* The run is done, lines were emitted and lines were dropped before the
\* first emitted one.
C16_Witness ==
    /\ pc = "done"
    /\ result_lines # <<>>
    /\ Len(result_lines) < i
    /\ result_lines[1] # lines[1]
    /\ IsSubseq(result_lines, SubSeq(lines, 1, i))

(***************************************************************************)
(* C17.  Block openings in the output.                                     *)
(***************************************************************************)
\* The lines of the file on disk.
OutputLines == RstripAll(readlines(file))

\* ls holds a separator line directly before a block opening.
SepBeforeOpening(ls) ==
    \E k \in 1..(Len(ls) - 1) : IsSep(ls[k]) /\ OpeningAt(ls, k + 1)

\* C17 as stated: whatever the input, the output holds no separator line
\* directly followed by the header.
C17_NoOpeningInOutput == pc = "done" => ~HasOpening(OutputLines)

\* C17, amended: the output holds no separator line directly followed by the
\* header, unless the input holds, before its sentinel, a separator line
\* directly before a block opening.
C17_NoOpeningUnlessSeparatorBefore ==
    (pc = "done" /\ ~SepBeforeOpening(BeforeSentinel(lines))) => ~HasOpening(OutputLines)

\* The run is done on an input with a block opening and no separator before
\* one; the output holds a separator and a header, not next to each other.
C17_Witness ==
    /\ pc = "done"
    /\ HasOpening(BeforeSentinel(lines))
    /\ ~SepBeforeOpening(BeforeSentinel(lines))
    /\ \E k \in 1..Len(OutputLines) : IsSep(OutputLines[k])
    /\ \E k \in 1..Len(OutputLines) : OutputLines[k] = SUPPRESSIONS_HEADER
    /\ ~HasOpening(OutputLines)

============================================================================
